---- MODULE Spec2Model ----
(***************************************************************************)
(* Model of packages/mdx/src/utils/build-mdx.ts: the process-wide          *)
(* processor cache of buildMDX and the remarkInclude transformer.          *)
(*                                                                         *)
(* Strings the code inspects (file paths, include specifiers) are          *)
(* sequences of one-character strings, so that endsWith, dirname and       *)
(* resolve are computed character by character.                            *)
(***************************************************************************)
EXTENDS Integers, Sequences, FiniteSets, Bags, TLC

\* ------------------------------------------------------------------ bounds

\* buildMDX calls made in one run of the process
MaxCalls == 3

\* buildMDX calls made in one run of the include check
MaxBuilds == 1

\* builds whose promise or file reads may be outstanding at the same time
MaxInFlight == 2

\* longest filePath of the format-inference check (SpecFormat)
MaxPathLen == 4

\* ----------------------------------------------------------------- strings

\* the absent value of an optional string-valued option (undefined)
None == "undefined"

\* an optional character sequence (filePath?: string): absent, or one value
Absent == <<>>
Given(v) == <<v>>
IsGiven(o) == Len(o) = 1

\* EndsWith with the first character of the suffix not compared
EndsWithTail(s, suf) ==
    /\ Len(s) >= Len(suf)
    /\ \A i \in 2..Len(suf) : s[Len(s) - Len(suf) + i] = suf[i]

\* does the character sequence s end with the character sequence suf
\* (String.prototype.endsWith, case-sensitive)
EndsWith(s, suf) ==
    /\ Len(s) >= Len(suf)
    /\ \A i \in 1..Len(suf) : s[Len(s) - Len(suf) + i] = suf[i]

DotMdx == <<".", "m", "d", "x">>

\* indices of the "/" characters of s
SlashIdx(s) == {i \in 1..Len(s) : s[i] = "/"}

\* the segments of s between "/" characters (empty segments included)
RECURSIVE SplitSlash(_)
SplitSlash(s) ==
    IF SlashIdx(s) = {} THEN <<s>>
    ELSE LET i == CHOOSE k \in SlashIdx(s) : \A m \in SlashIdx(s) : k <= m
         IN  <<SubSeq(s, 1, i - 1)>> \o SplitSlash(SubSeq(s, i + 1, Len(s)))

\* node:path normalizeString on the segments of an absolute path: "" and "."
\* are dropped, ".." removes the segment before it (and nothing at the root)
RECURSIVE NormSegs(_, _)
NormSegs(segs, acc) ==
    IF segs = <<>> THEN acc
    ELSE LET h == Head(segs)
             t == Tail(segs)
         IN  IF h = <<>> \/ h = <<".">> THEN NormSegs(t, acc)
             ELSE IF h = <<".", ".">>
                  THEN NormSegs(t, IF acc = <<>> THEN acc
                                   ELSE SubSeq(acc, 1, Len(acc) - 1))
                  ELSE NormSegs(t, Append(acc, h))

RECURSIVE JoinSegs(_)
JoinSegs(segs) ==
    IF segs = <<>> THEN <<>>
    ELSE <<"/">> \o Head(segs) \o JoinSegs(Tail(segs))

IsAbsolute(p) == Len(p) > 0 /\ p[1] = "/"

\* process.cwd()
Cwd == <<"/", "w">>

\* path.dirname (posix): the path up to its last "/" that is followed by a
\* name; "." for a bare name, "/" for a name directly under the root
PathDirname(p) ==
    IF Len(p) = 0 THEN <<".">>
    ELSE LET named == {i \in 2..Len(p) :
                          /\ p[i] = "/"
                          /\ \E j \in (i + 1)..Len(p) : p[j] # "/"}
         IN  IF named = {}
             THEN (IF IsAbsolute(p) THEN <<"/">> ELSE <<".">>)
             ELSE LET e == CHOOSE k \in named : \A m \in named : k >= m
                  IN  SubSeq(p, 1, e - 1)

\* path.resolve(base, specifier) (posix): arguments are taken from the right
\* until an absolute one is found, the working directory last; the result is
\* normalized and absolute
PathResolve(base, specifier) ==
    LET joined ==
            IF IsAbsolute(specifier) THEN specifier
            ELSE LET bs == IF Len(specifier) = 0 THEN base
                           ELSE IF Len(base) = 0 THEN specifier
                           ELSE base \o <<"/">> \o specifier
                 IN  IF IsAbsolute(bs) THEN bs
                     ELSE IF Len(bs) = 0 THEN Cwd
                     ELSE Cwd \o <<"/">> \o bs
        out == JoinSegs(NormSegs(SplitSlash(joined), <<>>))
    IN  IF out = <<>> THEN <<"/">> ELSE out

\* ------------------------------------------------------------------ format

\* buildMDX lines 99-103: the explicit format if truthy, else by the
\* file-path suffix if filePath is truthy, else "mdx"
ResolveFormat(format, filePath) ==
    IF format # None THEN format
    ELSE IF IsGiven(filePath) /\ Len(filePath[1]) > 0
         THEN (IF EndsWith(filePath[1], DotMdx) THEN "mdx" ELSE "md")
         ELSE "mdx"

\* cacheKey lines 40-42
cacheKey(group, format) == group \o ":" \o format

\* -------------------------------------------------------------- syntax tree

\* A node of the mdast tree. Every node carries the four fields the code reads
\* or writes; a field a node does not have is empty ("" or <<>>).
Node(type, name, value, children) ==
    [type |-> type, name |-> name, value |-> value, children |-> children]

Text(v)        == Node("text", "", v, <<>>)
Paragraph(v)   == Node("paragraph", "", <<>>, <<Text(v)>>)
Blockquote(ch) == Node("blockquote", "", <<>>, ch)
ThematicBreak  == Node("thematicBreak", "", <<>>, <<>>)
Jsx(name, ch)  == Node("mdxJsxFlowElement", name, <<>>, ch)
Include(spec)  == Jsx("include", <<Text(spec)>>)
Root(ch)       == Node("root", "", <<>>, ch)

\* the node of tree at path (the child indices from the root)
RECURSIVE NodeAt(_, _)
NodeAt(tree, path) ==
    IF path = <<>> THEN tree
    ELSE NodeAt(tree.children[Head(path)], Tail(path))

\* tree with the node at path replaced by new
RECURSIVE ReplaceAt(_, _, _)
ReplaceAt(tree, path, new) ==
    IF path = <<>> THEN new
    ELSE [tree EXCEPT !.children[Head(path)] =
              ReplaceAt(tree.children[Head(path)], Tail(path), new)]

\* ------------------------------------------------------------ file content

\* The text of a document is a sequence of lines. A line is a front-matter
\* fence ("---"), a key/value line, a block of markup, or markup the parser
\* rejects; node is what the parser makes of the line when it is in the body.
Fence       == [t |-> "fence", node |-> ThematicBreak]
Yaml(v)     == [t |-> "yaml", node |-> Paragraph(v)]
Block(n)    == [t |-> "md", node |-> n]
Malformed   == [t |-> "bad", node |-> Text(<<>>)]

\* Matter with the front matter left in the content
MatterKeepsAll(lines) == lines

\* gray-matter's matter(content).content, line 68: a document that opens with
\* a fence loses everything up to and including the closing fence (everything,
\* when the fence is never closed); any other document is its own body
Matter(lines) ==
    IF lines # <<>> /\ lines[1].t = "fence"
    THEN LET closes == {i \in 2..Len(lines) : lines[i].t = "fence"}
         IN  IF closes = {} THEN <<>>
             ELSE SubSeq(lines,
                         (CHOOSE k \in closes : \A m \in closes : k <= m) + 1,
                         Len(lines))
    ELSE lines

\* processor.parse throws on malformed markup
ParseThrows(lines) == \E i \in 1..Len(lines) : lines[i].t = "bad"

\* processor.parse, line 68: the root node of the parsed text
Parse(lines) == Root([i \in 1..Len(lines) |-> lines[i].node])

\* ------------------------------------------------------------ remarkInclude

\* lines 58-61: the visitor takes the node as an include to resolve
IsInclude(node) == node.type = "mdxJsxFlowElement" /\ node.name = "include"

\* HasTextFirstChild without the test of the child's type
HasFirstChild(node) == node.children # <<>>

HasTextFirstChild(node) ==
    node.children # <<>> /\ node.children[1].type = "text"

VisitorQueues(node) == IsInclude(node) /\ HasTextFirstChild(node)

\* VisitorSkips with 'skip' returned for the other JSX elements only
VisitorSkipsOthers(node) ==
    node.type = "mdxJsxFlowElement" /\ node.name # "include"

\* lines 57-79: the visitor runs on mdxJsxFlowElement nodes only; it returns
\* 'skip' for every such node except on the early return of line 61, where it
\* returns undefined and the traversal goes on into the node's children
VisitorSkips(node) ==
    /\ node.type = "mdxJsxFlowElement"
    /\ ~(node.name = "include" /\ ~HasTextFirstChild(node))

\* unist-util-visit as called on line 57: the paths of the nodes the visitor
\* queues, in the depth-first pre-order of the traversal
RECURSIVE Visit(_, _)
RECURSIVE VisitFrom(_, _, _)
RECURSIVE VisitFromBackwards(_, _, _)
Visit(node, path) ==
    (IF VisitorQueues(node) THEN <<path>> ELSE <<>>)
    \o (IF VisitorSkips(node) THEN <<>> ELSE VisitFrom(node, path, 1))

\* VisitFrom with the children taken from the last to the first
VisitFromBackwards(node, path, i) ==
    IF i > Len(node.children) THEN <<>>
    ELSE VisitFromBackwards(node, path, i + 1)
         \o Visit(node.children[i], Append(path, i))

VisitFrom(node, path, i) ==
    IF i > Len(node.children) THEN <<>>
    ELSE Visit(node.children[i], Append(path, i))
         \o VisitFrom(node, path, i + 1)

\* line 62: the specifier is the value of the first child
Specifier(node) == node.children[1].value

\* line 64: path.resolve(path.dirname(file.path), specifier)
TargetPath(filePath, node) ==
    PathResolve(PathDirname(filePath), Specifier(node))

\* Assign with the parsed children not copied
AssignTypeOnly(node, parsed) == [node EXCEPT !.type = parsed.type]

\* line 73: Object.assign(node, parsed) copies the fields the parsed root has
\* (type, children) over the node's and leaves the node's other fields
Assign(node, parsed) ==
    [node EXCEPT !.type = parsed.type, !.children = parsed.children]


\* ------------------------------------------------------------- environment

\* specifiers and paths used by the documents below
S_b    == <<"b", ".", "m", "d", "x">>
S_e    == <<"e", ".", "m", "d">>
S_k    == <<"k", ".", "m", "d", "x">>
S_n    == <<"n", ".", "m", "d", "x">>
S_x    == <<"x", ".", "m", "d", "x">>
S_p    == <<"p", ".", "m", "d", "x">>
S_q    == <<"q", ".", "m", "d", "x">>
S_upb  == <<".", ".", "/">> \o S_b
P_d_a  == <<"/", "d", "/", "a", ".", "m", "d", "x">>
P_ds_c == <<"/", "d", "/", "s", "/", "c", ".", "m", "d">>
P_rel  == <<"r", ".", "M", "D", "X">>
P_d_p  == <<"/", "d", "/">> \o S_p

\* words of text
W_title == <<"t">>
W_hello == <<"H">>
W_other == <<"E">>

\* The files on disk, by absolute path; any other path cannot be read.
\*   /d/b.mdx  front matter, then a paragraph
\*   /d/e.md   a paragraph and a JSX element, no front matter
\*   /d/n.mdx  front matter, then an include directive of b.mdx
\*   /d/k.mdx  markup the parser rejects
\*   /w/b.mdx  a paragraph (the working directory's b.mdx)
\*   /d/p.mdx  an include directive of q.mdx
\*   /d/q.mdx  an include directive of p.mdx
Files ==
    (<<"/", "d", "/">> \o S_b :>
        <<Fence, Yaml(W_title), Fence, Block(Paragraph(W_hello))>>)
    @@ (<<"/", "d", "/">> \o S_e :>
        <<Block(Paragraph(W_other)), Block(Jsx("Card", <<>>))>>)
    @@ (<<"/", "d", "/">> \o S_n :>
        <<Fence, Yaml(W_title), Fence, Block(Include(S_b))>>)
    @@ (<<"/", "d", "/">> \o S_k :>
        <<Block(Paragraph(W_hello)), Malformed>>)
    @@ (<<"/", "w", "/">> \o S_b :>
        <<Block(Paragraph(W_other))>>)
    @@ (P_d_p :> <<Block(Include(S_q))>>)
    @@ (<<"/", "d", "/">> \o S_q :> <<Block(Include(S_p))>>)

\* The sources passed to buildMDX, by name.
Source(name) ==
    CASE name = "plain"    -> <<Block(Paragraph(W_hello))>>
      [] name = "one"      -> <<Block(Include(S_b))>>
      [] name = "two"      -> <<Block(Include(S_b)), Block(Paragraph(W_hello)),
                                Block(Include(S_e))>>
      [] name = "same"     -> <<Block(Include(S_b)), Block(Include(S_b))>>
      [] name = "up"       -> <<Block(Include(S_upb))>>
      [] name = "inert"    -> <<Block(Jsx("include", <<>>)),
                                Block(Jsx("include", <<Paragraph(S_b)>>))>>
      [] name = "wrapped"  -> <<Block(Jsx("include", <<Include(S_b)>>))>>
      [] name = "nested"   -> <<Block(Jsx("div", <<Include(S_b)>>)),
                                Block(Blockquote(<<Include(S_e)>>))>>
      [] name = "missing"  -> <<Block(Include(S_e)), Block(Include(S_x))>>
      [] name = "hidden"   -> <<Block(Jsx("div", <<Include(S_x)>>))>>
      [] name = "badinc"   -> <<Block(Include(S_k))>>
      [] name = "chain"    -> <<Block(Include(S_n))>>
      [] name = "broken"   -> <<Malformed>>
      [] name = "inner"    -> <<Block(Jsx("include",
                                          <<Text(S_b), Include(S_e)>>))>>
      [] name = "cycle"    -> Files[P_d_p]

\* options.frontmatter values
FM_none  == {}
FM_draft == {"draft"}

\* One buildMDX call's source and options: options.format, options.filePath,
\* source, whether options._compiler is given, options.frontmatter, and
\* whether the remaining processor options are ones createProcessor accepts.
Request(format, filePath, source, recorder, valid) ==
    [format |-> format, filePath |-> filePath, source |-> source,
     recorder |-> recorder, frontmatter |-> IF recorder THEN FM_draft ELSE FM_none,
     valid |-> valid]

\* the calls of the cache check, as <<group, request>>: a build that stays
\* in flight (one include to read), options createProcessor rejects, a second
\* format and a second group
CacheCalls ==
    { <<"docs", Request(None, Given(P_d_a), "one",   TRUE,  TRUE)>>,
      <<"docs", Request(None, Given(P_d_a), "plain", FALSE, FALSE)>>,
      <<"docs", Request("md", Given(P_d_a), "plain", FALSE, TRUE)>>,
      <<"blog", Request(None, Given(P_d_a), "plain", FALSE, TRUE)>> }

\* the sources of the include check
Sources ==
    {"plain", "one", "two", "same", "inert", "wrapped", "nested", "missing",
     "hidden", "badinc", "chain", "broken", "inner"}

\* the requests of the include check: every source at /d/a.mdx with and
\* without a recorder, and sources at a nested path, at a relative path,
\* with an explicit format, without a path and with an empty path, and the
\* file /d/p.mdx built as a document
IncludeRequests ==
    {Request(None, Given(P_d_a), src, rec, TRUE) :
        src \in Sources, rec \in BOOLEAN}
    \cup { Request(None,  Given(P_ds_c), "up",    TRUE,  TRUE),
           Request(None,  Given(P_rel),  "one",   TRUE,  TRUE),
           Request("md",  Given(P_d_a),  "two",   TRUE,  TRUE),
           Request(None,  Absent,        "one",   TRUE,  TRUE),
           Request(None,  Absent,        "inert", FALSE, TRUE),
           Request(None,  Absent,        "hidden", TRUE, TRUE),
           Request(None,  Given(<<>>),   "plain", FALSE, TRUE),
           Request(None,  Given(P_rel),  "two",   TRUE,  TRUE),
           Request(None,  Given(P_ds_c), "same",  FALSE, TRUE),
           Request(None,  Given(P_d_p),  "cycle", TRUE,  TRUE),
           Request(None,  Given(P_d_p),  "cycle", FALSE, TRUE) }

NoRequest == Request(None, Absent, "", FALSE, TRUE)

Groups == {"docs", "blog"}
Hashes == {"h1", "h2"}
Formats == {"md", "mdx"}
Keys == {cacheKey(g, f) : g \in Groups, f \in Formats}

\* the characters and the option values of the format check
PathChars == {".", "m", "d", "x", "M"}
FormatOptions == {None, "md", "mdx"}

\* -------------------------------------------------------------------- state

VARIABLES
    cache,      \* line 13: key -> [processor, configHash]; a key without an
                \* entry is not in the domain
    created,    \* processors createProcessor has returned; processor n is the
                \* n-th one constructed
    calls,      \* buildMDX calls made so far
    last,       \* the latest buildMDX call: its arguments and what it did
    slots,      \* the builds in flight: tree, queued reads, promise state,
                \* dependencies reported; late (history) counts the nodes
                \* written after the transformer's promise settled
    ranOn,      \* history: key -> configHash and processor of the latest
                \* call on the key that ran (obtained a processor)
    firstUsed,  \* history: <<key, configHash>> -> the processor the first
                \* call with that key and configHash ran on
    installed,  \* history: <<key, configHash>> -> the processor the first
                \* call that replaced an entry of the key installed
    retired,    \* history: processors whose cache entry has been replaced
    madeFor     \* history: processor n -> the key, the configHash and the
                \* format of the call that constructed it

vars == <<cache, created, calls, last, slots, ranOn, firstUsed, installed,
          retired, madeFor>>

Slots == 1..MaxInFlight

NoEntry == [processor |-> 0, configHash |-> None]

\* line 106: cache.get(key)
Lookup(c, key) == IF key \in DOMAIN c THEN c[key] ELSE NoEntry

\* MustBuild with the configHash comparison inverted
MustBuildOnEqual(cached, configHash) ==
    cached = NoEntry \/ cached.configHash = configHash

\* MustBuild without the configHash comparison
MustBuildIfAbsent(cached, configHash) == cached = NoEntry

\* line 108: the entry is missing or was built under another configHash
MustBuild(cached, configHash) ==
    cached = NoEntry \/ cached.configHash # configHash

\* Store with the entries of the other keys dropped
StoreAlone(c, key, entry) == [k \in {key} |-> entry]

\* line 125: cache.set(key, cached)
Store(c, key, entry) ==
    [k \in DOMAIN c \cup {key} |-> IF k = key THEN entry ELSE c[k]]

\* CacheAfter with the entry stored before the processor is constructed
CacheAfterEager(c, key, configHash, valid, processor) ==
    IF MustBuild(Lookup(c, key), configHash)
    THEN Store(c, key, [processor |-> processor, configHash |-> configHash])
    ELSE c

\* CacheAfter with an entry stored only for a key that has none
CacheAfterFirstWins(c, key, configHash, valid, processor) ==
    IF MustBuild(Lookup(c, key), configHash) /\ valid /\ key \notin DOMAIN c
    THEN Store(c, key, [processor |-> processor, configHash |-> configHash])
    ELSE c

\* CacheAfter with the new configHash stored beside the processor the key
\* already had
CacheAfterKeepsProcessor(c, key, configHash, valid, processor) ==
    IF MustBuild(Lookup(c, key), configHash) /\ valid
    THEN Store(c, key,
               [processor |-> IF key \in DOMAIN c THEN c[key].processor
                              ELSE processor,
                configHash |-> configHash])
    ELSE c

\* lines 108-126: the cache after the lookup of one call; nothing is stored
\* on a hit, and nothing when createProcessor throws (the throw leaves the
\* function before line 125)
CacheAfter(c, key, configHash, valid, processor) ==
    IF MustBuild(Lookup(c, key), configHash) /\ valid
    THEN Store(c, key, [processor |-> processor, configHash |-> configHash])
    ELSE c

IdleSlot ==
    [st |-> "idle", err |-> "", req |-> NoRequest, processor |-> 0,
     tree |-> Root(<<>>), reads |-> <<>>, deps |-> <<>>,
     data |-> [frontmatter |-> FM_none, _compiler |-> FALSE],
     late |-> 0]

\* a slot holds no build whose promise or reads are outstanding
IsFree(slot) ==
    /\ slot.st # "pending"
    /\ \A i \in 1..Len(slot.reads) : slot.reads[i].st # "reading"

\* lines 55-79 up to the await: the reads the traversal starts, one per queued
\* node, in traversal order
QueueReads(tree, filePath) ==
    LET q == Visit(tree, <<>>)
    IN  [i \in 1..Len(q) |->
            [node |-> q[i],
             target |-> TargetPath(filePath, NodeAt(tree, q[i])),
             st |-> "reading"]]

\* lines 128-136 and the synchronous start of processor.process: the vfile
\* is made (an empty path is refused), the source is parsed, and the
\* transformer runs up to its await. path.dirname throws on an undefined
\* file.path at the first node the visitor queues.
StartProcess(req, processor) ==
    LET base == [IdleSlot EXCEPT !.req = req, !.processor = processor,
                    !.data = [frontmatter |-> req.frontmatter,
                              _compiler |-> req.recorder]]
        fail(e, t) == [base EXCEPT !.st = "rejected", !.err = e, !.tree = t]
    IN  IF IsGiven(req.filePath) /\ req.filePath[1] = <<>>
        THEN fail("vfile", Root(<<>>))
        ELSE IF ParseThrows(Source(req.source))
        THEN fail("parse", Root(<<>>))
        ELSE LET tree == Parse(Source(req.source))
             IN  IF Visit(tree, <<>>) # <<>> /\ ~IsGiven(req.filePath)
                 THEN fail("dirname", tree)
                 ELSE [base EXCEPT !.st = "pending", !.tree = tree,
                          !.reads = QueueReads(tree, req.filePath[1])]

NoCall ==
    [key |-> "", configHash |-> None, optFormat |-> None, filePath |-> Absent,
     format |-> None, threw |-> FALSE, built |-> FALSE, processor |-> 0,
     slot |-> 0]

Init ==
    /\ cache = <<>>
    /\ created = 0
    /\ calls = 0
    /\ last = NoCall
    /\ slots = [s \in Slots |-> IdleSlot]
    /\ ranOn = [k \in Keys |-> NoEntry]
    /\ firstUsed = [kh \in Keys \X Hashes |-> 0]
    /\ installed = [kh \in Keys \X Hashes |-> 0]
    /\ retired = {}
    /\ madeFor = <<>>

\* ------------------------------------------------------------------ actions

\* buildMDX(group, configHash, source, options), lines 91-137. The call runs
\* to the return of processor.process without suspending; the build it
\* starts is held in the first free slot.
BuildMDX(group, configHash, req) ==
    LET format == ResolveFormat(req.format, req.filePath)
        key    == cacheKey(group, format)
        cached == Lookup(cache, key)
        build  == MustBuild(cached, configHash)
        threw  == build /\ ~req.valid
        proc   == IF build THEN created + 1 ELSE cached.processor
        free   == {s \in Slots : IsFree(slots[s])}
        s      == CHOOSE x \in free : \A y \in free : x <= y
        call   == [key |-> key, configHash |-> configHash,
                   optFormat |-> req.format, filePath |-> req.filePath,
                   format |-> format, threw |-> threw,
                   built |-> build, processor |-> IF threw THEN 0 ELSE proc,
                   slot |-> IF threw THEN 0 ELSE s]
    IN  /\ threw \/ free # {}
        /\ calls' = calls + 1
        /\ cache' = CacheAfter(cache, key, configHash, req.valid, proc)
        /\ created' = IF build /\ ~threw THEN created + 1 ELSE created
        /\ ranOn' = IF ~threw
                    THEN [ranOn EXCEPT ![key] = [processor |-> proc,
                                                 configHash |-> configHash]]
                    ELSE ranOn
        /\ firstUsed' = IF ~threw /\ firstUsed[<<key, configHash>>] = 0
                        THEN [firstUsed EXCEPT ![<<key, configHash>>] = proc]
                        ELSE firstUsed
        /\ installed' = IF build /\ ~threw /\ cached # NoEntry
                           /\ installed[<<key, configHash>>] = 0
                        THEN [installed EXCEPT ![<<key, configHash>>] = proc]
                        ELSE installed
        /\ retired' = IF build /\ ~threw /\ cached # NoEntry
                      THEN retired \cup {cached.processor}
                      ELSE retired
        /\ madeFor' = IF build /\ ~threw
                      THEN Append(madeFor, [key |-> key, format |-> format,
                                            configHash |-> configHash])
                      ELSE madeFor
        /\ last' = call
        /\ slots' = IF threw THEN slots
                    ELSE [slots EXCEPT ![s] = StartProcess(req, proc)]

\* ReadResult with a path reported once only
ReadResultDedup(slot, i) ==
    LET rd     == slot.reads[i]
        failed(e) ==
            [slot EXCEPT !.reads[i].st = "failed",
                         !.st = IF @ = "pending" THEN "rejected" ELSE @,
                         !.err = IF slot.st = "pending" THEN e ELSE @]
    IN  IF rd.target \notin DOMAIN Files THEN failed("read")
        ELSE LET body == Matter(Files[rd.target])
             IN  IF ParseThrows(body) THEN failed("include")
                 ELSE [slot EXCEPT
                         !.reads[i].st = "done",
                         !.late = IF slot.st = "pending" THEN @ ELSE @ + 1,
                         !.deps = IF slot.data._compiler
                                     /\ \A j \in 1..Len(@) : @[j] # rd.target
                                  THEN Append(@, rd.target) ELSE @,
                         !.tree = ReplaceAt(@, rd.node,
                                     Assign(NodeAt(@, rd.node), Parse(body)))]

\* ReadResult with the include directives of the inlined content queued in
\* their turn, each against the directory of the file that holds it
ReadResultRecursive(slot, i) ==
    LET rd     == slot.reads[i]
        failed(e) ==
            [slot EXCEPT !.reads[i].st = "failed",
                         !.st = IF @ = "pending" THEN "rejected" ELSE @,
                         !.err = IF slot.st = "pending" THEN e ELSE @]
    IN  IF rd.target \notin DOMAIN Files THEN failed("read")
        ELSE LET body == Matter(Files[rd.target])
             IN  IF ParseThrows(body) THEN failed("include")
                 ELSE LET more == Visit(Parse(body), <<>>)
                      IN  [slot EXCEPT
                             !.reads =
                                 [@ EXCEPT ![i].st = "done"]
                                 \o [j \in 1..Len(more) |->
                                       [node |-> rd.node \o more[j],
                                        target |-> TargetPath(rd.target,
                                            NodeAt(Parse(body), more[j])),
                                        st |-> "reading"]],
                             !.late = IF slot.st = "pending" THEN @
                                      ELSE @ + 1,
                             !.deps = IF slot.data._compiler
                                      THEN Append(@, rd.target) ELSE @,
                             !.tree = ReplaceAt(@, rd.node,
                                         Assign(NodeAt(@, rd.node),
                                                Parse(body)))]

\* lines 67-74: the callback of one completed read. A file that cannot be
\* read rejects that promise; matter or parse throwing rejects it as well,
\* before the dependency is reported and before the node is written.
\* Promise.all (line 81) rejects the transform at the first rejection.
ReadResult(slot, i) ==
    LET rd     == slot.reads[i]
        failed(e) ==
            [slot EXCEPT !.reads[i].st = "failed",
                         !.st = IF @ = "pending" THEN "rejected" ELSE @,
                         !.err = IF slot.st = "pending" THEN e ELSE @]
    IN  IF rd.target \notin DOMAIN Files THEN failed("read")
        ELSE LET body == Matter(Files[rd.target])
             IN  IF ParseThrows(body) THEN failed("include")
                 ELSE [slot EXCEPT
                         !.reads[i].st = "done",
                         !.late = IF slot.st = "pending" THEN @ ELSE @ + 1,
                         !.deps = IF slot.data._compiler
                                  THEN Append(@, rd.target) ELSE @,
                         !.tree = ReplaceAt(@, rd.node,
                                     Assign(NodeAt(@, rd.node), Parse(body)))]

ReadDone(s, i) ==
    /\ slots[s].reads[i].st = "reading"
    /\ slots' = [slots EXCEPT ![s] = ReadResult(slots[s], i)]
    /\ UNCHANGED <<cache, created, calls, last, ranOn, firstUsed, installed,
                   retired, madeFor>>

\* Settle without waiting for the queued reads
SettleEarly(s, ok) ==
    /\ slots[s].st = "pending"
    /\ slots' = [slots EXCEPT ![s].st = IF ok THEN "resolved" ELSE "rejected",
                              ![s].err = IF ok THEN "" ELSE "compile"]
    /\ UNCHANGED <<cache, created, calls, last, ranOn, firstUsed, installed,
                   retired, madeFor>>

\* line 81 onwards: every queued read has completed, Promise.all resolves,
\* the transformer returns and the rest of the pipeline (later plugins,
\* compilation) runs; it settles the promise buildMDX returned either way
Settle(s, ok) ==
    /\ slots[s].st = "pending"
    /\ \A i \in 1..Len(slots[s].reads) : slots[s].reads[i].st = "done"
    /\ slots' = [slots EXCEPT ![s].st = IF ok THEN "resolved" ELSE "rejected",
                              ![s].err = IF ok THEN "" ELSE "compile"]
    /\ UNCHANGED <<cache, created, calls, last, ranOn, firstUsed, installed,
                   retired, madeFor>>

Progress ==
    \/ \E s \in Slots : \E i \in 1..Len(slots[s].reads) : ReadDone(s, i)
    \/ \E s \in Slots, ok \in BOOLEAN : Settle(s, ok)

\* the cache check: calls on several keys and configHash values, overlapping
Call ==
    /\ calls < MaxCalls
    /\ \E c \in CacheCalls, h \in Hashes : BuildMDX(c[1], h, c[2])

Next == Call \/ Progress

Spec == Init /\ [][Next]_vars

\* the include check: builds of every kind of document under one key
CallInclude ==
    /\ calls < MaxBuilds
    /\ \E req \in IncludeRequests : BuildMDX("docs", "h1", req)

NextInclude == CallInclude \/ Progress

SpecInclude == Init /\ [][NextInclude]_vars

\* the format check: lines 99-105 applied to every option value and every
\* filePath of at most MaxPathLen characters
StringsUpTo(n) == UNION {[1..k -> PathChars] : k \in 0..n}

InitFormat ==
    /\ cache = <<>>
    /\ created = 0
    /\ calls = 0
    /\ last \in {[NoCall EXCEPT !.optFormat = f, !.filePath = p] :
                    f \in FormatOptions,
                    p \in {Absent} \cup {Given(x) : x \in StringsUpTo(MaxPathLen)}}
    /\ slots = [s \in Slots |-> IdleSlot]
    /\ ranOn = [k \in Keys |-> NoEntry]
    /\ firstUsed = [kh \in Keys \X Hashes |-> 0]
    /\ installed = [kh \in Keys \X Hashes |-> 0]
    /\ retired = {}
    /\ madeFor = <<>>

ResolveStep ==
    /\ last.format = None
    /\ last' = [last EXCEPT
                  !.format = ResolveFormat(last.optFormat, last.filePath),
                  !.key = cacheKey("docs",
                              ResolveFormat(last.optFormat, last.filePath))]
    /\ UNCHANGED <<cache, created, calls, slots, ranOn, firstUsed, installed,
                   retired, madeFor>>

SpecFormat == InitFormat /\ [][ResolveStep]_vars

\* ------------------------------------------------------------ cache claims

\* the last four characters of p are ".mdx"
SuffixIsDotMdx(p) ==
    /\ Len(p) >= 4
    /\ p[Len(p) - 3] = "." /\ p[Len(p) - 2] = "m"
    /\ p[Len(p) - 1] = "d" /\ p[Len(p)] = "x"

\* the latest call obtained a processor
Ran == last.key # "" /\ ~last.threw

\* C1, as stated: any two buildMDX calls with the same key and the same
\* configHash run on the same processor instance (createProcessor is
\* invoked at most once per key and configHash).
C1_SameInstanceForEver ==
    Ran /\ firstUsed[<<last.key, last.configHash>>] # 0
        => last.processor = firstUsed[<<last.key, last.configHash>>]

\* C1, amended: a call whose configHash is that of the latest call that ran
\* on its key runs on the very processor of that call and invokes
\* createProcessor not at all; so two calls with the same key and configHash
\* share one instance unless a call on the key with another configHash ran
\* between them.
C1_SameInstanceWhileHashStays ==
    [][calls' = calls + 1 /\ ~last'.threw
         /\ ranOn[last'.key].configHash = last'.configHash
         => /\ last'.processor = ranOn[last'.key].processor
            /\ created' = created
            /\ ~last'.built]_vars

C1_Reused ==
    /\ Ran /\ ~last.built /\ calls >= 2
    /\ last.processor = firstUsed[<<last.key, last.configHash>>]

\* C2, as stated: a call that finds the key's entry under another configHash
\* invokes createProcessor once, the entry becomes the new processor with the
\* new configHash, and every later call on the key with that configHash gets
\* that processor, never a replaced one.
C2_ReplacedForGood ==
    [][calls' = calls + 1 =>
        LET k == last'.key
            h == last'.configHash
        IN  /\ k \in DOMAIN cache /\ cache[k].configHash # h
                => /\ created' = created + 1
                   /\ cache'[k] = [processor |-> created', configHash |-> h]
            /\ ~last'.threw /\ installed[<<k, h>>] # 0
                => last'.processor = installed[<<k, h>>]
            /\ ~last'.threw => last'.processor \notin retired']_vars

\* C2, amended: such a call invokes createProcessor once; if createProcessor
\* returns, the entry becomes the new, never before used processor with the
\* new configHash and the old processor is retired (if it throws, the cache
\* is unchanged); later calls on the key with that configHash get the
\* entry's processor for as long as no call with another configHash has
\* replaced the entry again; no call ever gets a retired processor.
C2_ReplacedUntilNextChange ==
    [][calls' = calls + 1 =>
        LET k == last'.key
            h == last'.configHash
        IN  /\ k \in DOMAIN cache /\ cache[k].configHash # h
                => /\ last'.built
                   /\ IF last'.threw
                      THEN cache' = cache /\ created' = created
                      ELSE /\ created' = created + 1
                           /\ last'.processor = created'
                           /\ cache'[k] = [processor |-> created',
                                           configHash |-> h]
                           /\ cache[k].processor \in retired'
                           /\ \A j \in DOMAIN cache :
                                  cache[j].processor < created'
                           /\ \A p \in retired : p < created'
            /\ ~last'.threw /\ k \in DOMAIN cache /\ cache[k].configHash = h
                => /\ last'.processor = cache[k].processor
                   /\ cache' = cache
            /\ ~last'.threw => last'.processor \notin retired']_vars

C2_ReplacedThenReused ==
    /\ Ran /\ ~last.built
    /\ installed[<<last.key, last.configHash>>] = last.processor
    /\ retired # {}

\* C3: when createProcessor throws, the call throws to its caller (no build
\* is started, no promise returned) and the cache is what it was before the
\* call: the key keeps the entry it had, or still has none.
C3_ThrowLeavesCache ==
    [][calls' = calls + 1 /\ last'.threw
         => /\ cache' = cache
            /\ slots' = slots
            /\ created' = created
            /\ last'.processor = 0 /\ last'.slot = 0]_vars

C3_ThrewOverEntry ==
    /\ last.threw
    /\ last.key \in DOMAIN cache
    /\ cache[last.key].configHash # last.configHash

\* C17: when calls on one key with different configHash values overlap, the
\* key's entry is the one of the latest call that constructed a processor;
\* a call touches no build but the one it starts, which never takes the
\* place of a build in flight; a build keeps the processor and the arguments
\* it started with until it settles, the cache changes in calls only, and a
\* build whose processor has been replaced in the cache ends with the tree
\* any build of its document ends with.
C17_LastWriterWins ==
    [][/\ calls' = calls + 1 =>
             /\ \A s \in Slots : s # last'.slot => slots'[s] = slots[s]
             /\ \A s \in Slots : ~IsFree(slots[s]) => s # last'.slot
             /\ IF last'.built /\ ~last'.threw
                THEN /\ created' = created + 1
                     /\ last'.processor = created'
                     /\ cache'[last'.key] =
                            [processor |-> created',
                             configHash |-> last'.configHash]
                ELSE cache' = cache /\ created' = created
       /\ calls' = calls =>
             /\ cache' = cache
             /\ \A s \in Slots :
                    /\ slots'[s].processor = slots[s].processor
                    /\ slots'[s].req = slots[s].req
       /\ \A s \in Slots :
             slots'[s].st = "resolved" /\ slots'[s].reads # <<>> =>
                 /\ slots'[s].tree.children[1].type = "root"
                 /\ slots'[s].tree.children[1].children
                        = <<Paragraph(W_hello)>>
                 /\ slots'[s].deps = <<slots'[s].reads[1].target>>]_vars

C17_ReplacedWhileInFlight ==
    \E s \in Slots :
        /\ slots[s].st = "pending"
        /\ slots[s].reads # <<>> /\ slots[s].reads[1].st = "reading"
        /\ slots[s].processor \in retired
        /\ last.built /\ ~last.threw
        /\ madeFor[slots[s].processor].key = last.key
        /\ cache[last.key].processor = last.processor

\* C19: a buildMDX call changes at most the entry of its own key
\* group:format. On a hit the cache is unchanged and no processor is
\* constructed; on a miss the key's entry alone is written (nothing when
\* createProcessor throws); the entries of the other keys stay, no key ever
\* leaves the cache, and nothing but a call changes the cache.
C19_OnlyOwnKeyWritten ==
    [][/\ DOMAIN cache \subseteq DOMAIN cache'
       /\ calls' = calls + 1 =>
             LET k == last'.key
             IN  /\ \E g \in Groups : k = g \o ":" \o last'.format
                 /\ DOMAIN cache' \subseteq DOMAIN cache \cup {k}
                 /\ \A j \in DOMAIN cache : j # k => cache'[j] = cache[j]
                 /\ k \in DOMAIN cache
                      /\ cache[k].configHash = last'.configHash
                      => /\ cache' = cache
                         /\ created' = created
                         /\ ~last'.built /\ ~last'.threw
                 /\ k \notin DOMAIN cache \/ cache[k].configHash # last'.configHash
                      => /\ last'.built
                         /\ IF last'.threw THEN cache' = cache
                            ELSE /\ k \in DOMAIN cache'
                                 /\ cache'[k].configHash = last'.configHash
       /\ calls' = calls => cache' = cache /\ created' = created]_vars

C19_OtherKeyKept ==
    /\ last.built /\ ~last.threw
    /\ retired # {}
    /\ last.processor \notin retired
    /\ \E j \in DOMAIN cache :
          /\ j # last.key
          /\ cache[j].processor < last.processor
          /\ cache[j].processor \notin retired

\* C20: lookup, comparison and store are one step, so in every interleaving
\* of builds: a key has an entry exactly when a call on it has obtained a
\* processor, and the entry is the processor and the configHash of the
\* latest such call; the entries of different keys hold different
\* processors; and every processor in use, by the cache, by the latest call
\* or by a build in flight, was constructed for the key and under the
\* configHash it is used with, and for the format of the build that runs on
\* it.
C20_EntryIsLatestCall ==
    /\ DOMAIN cache \subseteq Keys
    /\ created = Len(madeFor)
    /\ \A k \in Keys :
          IF ranOn[k] = NoEntry THEN k \notin DOMAIN cache
          ELSE k \in DOMAIN cache /\ cache[k] = ranOn[k]
    /\ \A j, k \in DOMAIN cache :
          j # k => cache[j].processor # cache[k].processor
    /\ \A k \in DOMAIN cache :
          /\ cache[k].processor \in 1..created
          /\ madeFor[cache[k].processor].key = k
          /\ madeFor[cache[k].processor].configHash = cache[k].configHash
    /\ Ran =>
          /\ last.processor \in 1..created
          /\ madeFor[last.processor].key = last.key
          /\ madeFor[last.processor].configHash = last.configHash
          /\ cache[last.key] = [processor |-> last.processor,
                                configHash |-> last.configHash]
    /\ \A s \in Slots :
          slots[s].st # "idle" =>
              /\ slots[s].processor \in 1..created
              /\ madeFor[slots[s].processor].format =
                     IF slots[s].req.format # None THEN slots[s].req.format
                     ELSE IF IsGiven(slots[s].req.filePath)
                             /\ slots[s].req.filePath[1] # <<>>
                          THEN (IF SuffixIsDotMdx(slots[s].req.filePath[1])
                                THEN "mdx" ELSE "md")
                          ELSE "mdx"

C20_TwoBuildsOneKey ==
    \E s, t \in Slots :
        /\ s # t /\ Ran
        /\ slots[s].st = "pending" /\ slots[t].st = "pending"
        /\ slots[s].reads # <<>> /\ slots[t].reads # <<>>
        /\ slots[s].reads[1].st = "reading" /\ slots[t].reads[1].st = "reading"
        /\ madeFor[slots[s].processor].key = madeFor[slots[t].processor].key
        /\ madeFor[slots[s].processor].configHash
              # madeFor[slots[t].processor].configHash
        /\ last.slot = t
        /\ cache[last.key].processor = slots[t].processor
        /\ cache[last.key].configHash = last.configHash

\* ---------------------------------------------------------- include claims

\* the paths of all nodes of the tree below and including path, in document
\* order
RECURSIVE AllPaths(_, _)
RECURSIVE AllPathsFrom(_, _, _)
AllPaths(node, path) == <<path>> \o AllPathsFrom(node, path, 1)
AllPathsFrom(node, path, i) ==
    IF i > Len(node.children) THEN <<>>
    ELSE AllPaths(node.children[i], Append(path, i))
         \o AllPathsFrom(node, path, i + 1)

PathsOf(tree) ==
    LET all == AllPaths(tree, <<>>) IN {all[i] : i \in 1..Len(all)}

\* q is a proper prefix of p: the node at q is an ancestor of the node at p
IsAncestor(q, p) == Len(q) < Len(p) /\ SubSeq(p, 1, Len(q)) = q

\* an include directive: a JSX flow element named include
IsIncludeDirective(node) ==
    node.type = "mdxJsxFlowElement" /\ node.name = "include"

\* an include directive with a text first child
IsResolvable(node) ==
    /\ IsIncludeDirective(node)
    /\ Len(node.children) >= 1
    /\ node.children[1].type = "text"

\* the body of a file: its lines after the closing fence of a front-matter
\* preamble that opens it
RECURSIVE AfterFence(_)
AfterFence(lines) ==
    IF lines = <<>> THEN <<>>
    ELSE IF Head(lines).t = "fence" THEN Tail(lines)
    ELSE AfterFence(Tail(lines))

BodyOf(lines) ==
    IF lines = <<>> \/ Head(lines).t # "fence" THEN lines
    ELSE AfterFence(Tail(lines))

\* the slot holds a build whose source was parsed
Parsed(slot) == slot.st # "idle" /\ slot.err \notin {"vfile", "parse"}

\* the slot holds a build whose traversal completed
Traversed(slot) == Parsed(slot) /\ slot.err # "dirname"

\* the tree the transformer received
Original(slot) == Parse(Source(slot.req.source))

QueuedNodes(slot) == {slot.reads[i].node : i \in 1..Len(slot.reads)}

\* the file an include directive of the build names
TargetOf(slot, node) ==
    PathResolve(PathDirname(slot.req.filePath[1]), node.children[1].value)

Unusable(target) ==
    \/ target \notin DOMAIN Files
    \/ \E i \in 1..Len(Files[target]) : Files[target][i].t = "bad"

Count(seq, x) == Cardinality({i \in 1..Len(seq) : seq[i] = x})

\* C4, as stated: a build of a document one of whose resolvable include
\* directives names a file that cannot be read or parsed does not succeed.
C4_UnusableTargetRejects ==
    \A s \in Slots :
        slots[s].st = "resolved" /\ IsGiven(slots[s].req.filePath) =>
            \A p \in PathsOf(Original(slots[s])) :
                IsResolvable(NodeAt(Original(slots[s]), p)) =>
                    ~Unusable(TargetOf(slots[s], NodeAt(Original(slots[s]), p)))

\* C5: after a build that succeeds, each resolved include directive's place
\* (same parent, same index) holds a node with the type and the children of
\* the root parsed from the target's body; the rest of the host tree is as
\* parsed; nothing of a preamble is in the tree or in the file's data.
C5_SplicedInPlace ==
    \A s \in Slots :
        slots[s].st = "resolved" =>
            LET slot == slots[s]
                orig == Original(slot)
            IN  /\ \A i \in 1..Len(slot.reads) :
                      LET q    == slot.reads[i].node
                          n    == NodeAt(slot.tree, q)
                          body == BodyOf(Files[TargetOf(slot, NodeAt(orig, q))])
                      IN  /\ n.type = "root"
                          /\ n.children = [j \in 1..Len(body) |-> body[j].node]
                /\ \A p \in PathsOf(orig) :
                      (\A q \in QueuedNodes(slot) : q # p /\ ~IsAncestor(q, p))
                          => /\ NodeAt(slot.tree, p).type = NodeAt(orig, p).type
                             /\ NodeAt(slot.tree, p).name = NodeAt(orig, p).name
                             /\ NodeAt(slot.tree, p).value = NodeAt(orig, p).value
                             /\ Len(NodeAt(slot.tree, p).children)
                                  = Len(NodeAt(orig, p).children)
                /\ \A p \in PathsOf(slot.tree) :
                      /\ NodeAt(slot.tree, p).value # W_title
                      /\ NodeAt(slot.tree, p).type # "thematicBreak"
                /\ slot.data = [frontmatter |-> slot.req.frontmatter,
                                _compiler |-> slot.req.recorder]

C5_PreambleDropped ==
    \E s \in Slots :
        /\ slots[s].st = "resolved"
        /\ \E i \in 1..Len(slots[s].reads) :
              /\ Head(Files[slots[s].reads[i].target]).t = "fence"
              /\ NodeAt(slots[s].tree, slots[s].reads[i].node).children
                   = <<Paragraph(W_hello)>>

\* C6: in a build that succeeds with a recorder, addDependency was called
\* once per resolved include occurrence with the absolute path of its
\* target: as many calls as resolved nodes, each path as often as it is
\* included, whatever the order in which the reads completed.
C6_OneDependencyPerInclude ==
    \A s \in Slots :
        slots[s].st = "resolved" =>
            LET slot == slots[s]
                want == [i \in 1..Len(slot.reads) |->
                            TargetOf(slot,
                                NodeAt(Original(slot), slot.reads[i].node))]
            IN  IF slot.req.recorder
                THEN /\ Len(slot.deps) = Cardinality(QueuedNodes(slot))
                     /\ \A i \in 1..Len(want) :
                           /\ IsAbsolute(want[i])
                           /\ Count(slot.deps, want[i]) = Count(want, want[i])
                ELSE slot.deps = <<>>

C6_SameFileTwice ==
    \E s \in Slots :
        /\ slots[s].st = "resolved"
        /\ Len(slots[s].deps) = 2
        /\ slots[s].deps[1] = slots[s].deps[2]

C8_EveryIncludeLocated ==
    \A s \in Slots :
        Traversed(slots[s]) =>
            LET orig == Original(slots[s])
            IN  \A p \in PathsOf(orig) :
                    /\ IsResolvable(NodeAt(orig, p))
                    /\ \A q \in PathsOf(orig) :
                          IsAncestor(q, p)
                              => ~IsIncludeDirective(NodeAt(orig, q))
                    => p \in QueuedNodes(slots[s])

C12_NoFieldSurvives ==
    \A s \in Slots :
        Traversed(slots[s]) =>
            \A i \in 1..Len(slots[s].reads) :
                slots[s].reads[i].st = "done" =>
                    LET n == NodeAt(slots[s].tree, slots[s].reads[i].node)
                        o == NodeAt(Original(slots[s]), slots[s].reads[i].node)
                    IN  /\ n.name # "include"
                        /\ n.type # o.type
                        /\ n.children # o.children

\* the reads of the build that are no longer outstanding
Completed(slot) == {i \in 1..Len(slot.reads) : slot.reads[i].st # "reading"}

\* the transformer of the build has completed: the promise settled, by the
\* transformer failing or by what follows the transformer
TransformDone(slot) == slot.st \in {"resolved", "rejected"}

\* the transformer failed in Promise.all, on a read or on an included file
FailedInRead(slot) ==
    slot.st = "rejected" /\ slot.err \in {"read", "include"}

\* C13, as stated: the transformer does not complete, by succeeding or by
\* failing, while a read it queued is outstanding, and no node is written and
\* no dependency reported after it has completed.
C13_NothingAfterCompletion ==
    \A s \in Slots :
        /\ TransformDone(slots[s]) =>
               Completed(slots[s]) = DOMAIN slots[s].reads
        /\ slots[s].late = 0

\* C13, amended: the transformer does not complete successfully until every
\* read it queued has completed, and nothing is written or reported after a
\* successful completion. It fails at the first read or included file that
\* fails, with other reads possibly outstanding; those still complete, write
\* their nodes and report their files after the build's promise has been
\* rejected, which stays rejected with the first error.
C13_NothingAfterSuccess ==
    \A s \in Slots :
        Traversed(slots[s]) =>
            LET slot   == slots[s]
                failed == {i \in 1..Len(slot.reads) :
                              slot.reads[i].st = "failed"}
            IN  /\ TransformDone(slot) /\ ~FailedInRead(slot) =>
                       /\ \A i \in 1..Len(slot.reads) :
                              slot.reads[i].st = "done"
                       /\ slot.late = 0
                /\ slot.st = "pending" => failed = {} /\ slot.late = 0
                /\ failed # {} <=> FailedInRead(slot)
                /\ FailedInRead(slot) =>
                       slot.late <= Cardinality(Completed(slot) \ failed)
                /\ slot.req.recorder =>
                       Len(slot.deps) = Cardinality(Completed(slot) \ failed)

C13_WrittenAfterFailure ==
    \E s \in Slots :
        /\ slots[s].req.source = "missing"
        /\ FailedInRead(slots[s])
        /\ slots[s].late = 1
        /\ Len(slots[s].deps) = 1
        /\ NodeAt(slots[s].tree, <<1>>).type = "root"

\* what an include directive becomes when the body of its target is inlined:
\* a root over the body's nodes that keeps the directive's other fields
Inlined(slot, node) ==
    LET body == BodyOf(Files[TargetOf(slot, node)])
    IN  [type |-> "root", name |-> node.name, value |-> node.value,
         children |-> [j \in 1..Len(body) |-> body[j].node]]

\* the tree with the nodes of the reads from the i-th on inlined, in queue
\* order
RECURSIVE InlineAll(_, _, _)
InlineAll(slot, tree, i) ==
    IF i > Len(slot.reads) THEN tree
    ELSE LET q == slot.reads[i].node
         IN  InlineAll(slot,
                 ReplaceAt(tree, q, Inlined(slot, NodeAt(Original(slot), q))),
                 i + 1)

\* C14: within one run each include node the traversal queued has exactly one
\* resolution, no two resolutions have the same node or nodes one inside the
\* other, a node is written once, when its own read completes, and not
\* otherwise; when all reads have succeeded the tree is the original with
\* every queued node inlined, whatever the order of completion.
C14_OneWritePerNode ==
    \A s \in Slots :
        Traversed(slots[s]) =>
            LET slot == slots[s]
                orig == Original(slot)
            IN  /\ \A i, j \in 1..Len(slot.reads) :
                       i # j => /\ slot.reads[i].node # slot.reads[j].node
                                /\ ~IsAncestor(slot.reads[i].node,
                                               slot.reads[j].node)
                /\ \A i \in 1..Len(slot.reads) :
                       LET q == slot.reads[i].node
                       IN  /\ q \in PathsOf(orig)
                           /\ IsResolvable(NodeAt(orig, q))
                           /\ NodeAt(slot.tree, q) =
                                  IF slot.reads[i].st = "done"
                                  THEN Inlined(slot, NodeAt(orig, q))
                                  ELSE NodeAt(orig, q)
                /\ (\A i \in 1..Len(slot.reads) : slot.reads[i].st = "done")
                       => slot.tree = InlineAll(slot, orig, 1)

C14_SecondReadFirst ==
    \E s \in Slots :
        /\ slots[s].req.source = "two"
        /\ slots[s].st = "resolved"
        /\ Len(slots[s].deps) = 2
        /\ slots[s].deps[1] = <<"/", "d", "/">> \o S_e
        /\ slots[s].deps[2] = <<"/", "d", "/">> \o S_b
        /\ slots[s].tree = InlineAll(slots[s], Original(slots[s]), 1)

\* the include directives the traversal is to queue, in document order: the
\* resolvable ones that no JSX element the traversal stops at encloses
ToQueue(orig) ==
    LET Stops(n) == /\ n.type = "mdxJsxFlowElement"
                    /\ (n.name # "include" \/ IsResolvable(n))
        Reached(p) ==
            /\ IsResolvable(NodeAt(orig, p))
            /\ \A k \in 0..(Len(p) - 1) :
                   ~Stops(NodeAt(orig, SubSeq(p, 1, k)))
    IN  SelectSeq(AllPaths(orig, <<>>), Reached)

\* C15: the queue of a run is complete when the transformer first suspends
\* and is never changed by a callback: at every moment it is the include
\* directives of the original tree in document order, each with the target
\* its specifier names, and while no read has completed the tree is the
\* original one and nothing has been reported.
C15_QueueFixedByTraversal ==
    \A s \in Slots :
        Traversed(slots[s]) =>
            LET slot == slots[s]
                orig == Original(slot)
            IN  /\ [i \in 1..Len(slot.reads) |-> slot.reads[i].node]
                       = ToQueue(orig)
                /\ \A i \in 1..Len(slot.reads) :
                       slot.reads[i].target =
                           TargetOf(slot, NodeAt(orig, slot.reads[i].node))
                /\ Completed(slot) = {}
                       => /\ slot.tree = orig
                          /\ slot.deps = <<>>
                          /\ slot.st = "pending" \/ slot.reads = <<>>

C15_LaterReadDoneFirst ==
    \E s \in Slots :
        /\ slots[s].st = "pending"
        /\ Len(slots[s].reads) = 2
        /\ slots[s].reads[1].st = "reading"
        /\ slots[s].reads[2].st = "done"
        /\ slots[s].reads[1].node = <<1>>
        /\ slots[s].reads[2].node = <<3>>

\* C16, as stated: a build without filePath of a document that holds an
\* include directive with a text first child fails, and no file is read for
\* it; a build without filePath of a document that holds none does not fail
\* for want of a path.
C16_NoPathIncludeFails ==
    \A s \in Slots :
        Parsed(slots[s]) /\ ~IsGiven(slots[s].req.filePath) =>
            LET slot == slots[s]
                orig == Original(slot)
            IN  IF \E p \in PathsOf(orig) : IsResolvable(NodeAt(orig, p))
                THEN /\ slot.st # "resolved"
                     /\ slot.reads = <<>> /\ slot.deps = <<>>
                ELSE slot.err \in {"", "compile"}

\* C18, as stated: with a recorder, every file a build has read is reported
\* through addDependency with its absolute path, also when the content of the
\* file then fails to parse and also when another include of the build
\* fails.
C18_EveryReadReported ==
    \A s \in Slots :
        Traversed(slots[s]) /\ slots[s].req.recorder =>
            \A i \in Completed(slots[s]) :
                slots[s].reads[i].target \in DOMAIN Files =>
                    /\ IsAbsolute(slots[s].reads[i].target)
                    /\ Count(slots[s].deps, slots[s].reads[i].target) >= 1

\* ----------------------------------------------------------- format claims

\* C9, as stated: the format is the explicit option when given; otherwise,
\* for any given filePath, "mdx" if it ends with ".mdx" and "md" if not;
\* otherwise "mdx".
C9_FormatForAnyPath ==
    last.format # None =>
        last.format =
            IF last.optFormat # None THEN last.optFormat
            ELSE IF IsGiven(last.filePath)
                 THEN (IF SuffixIsDotMdx(last.filePath[1]) THEN "mdx" ELSE "md")
                 ELSE "mdx"

\* C9, amended: as stated, except that an empty filePath counts as no
\* filePath (the format is "mdx"); the key is built from that format.
C9_FormatForNonEmptyPath ==
    last.format # None =>
        /\ last.format =
              IF last.optFormat # None THEN last.optFormat
              ELSE IF IsGiven(last.filePath) /\ last.filePath[1] # <<>>
                   THEN (IF SuffixIsDotMdx(last.filePath[1]) THEN "mdx"
                         ELSE "md")
                   ELSE "mdx"
        /\ \E g \in Groups : last.key = g \o ":" \o last.format

C9_ExplicitOverSuffix ==
    /\ last.format = "md" /\ last.optFormat = "md"
    /\ IsGiven(last.filePath) /\ SuffixIsDotMdx(last.filePath[1])

====
